---- MODULE Spec2Model ----
(***************************************************************************)
(* zod-to-entity-definitions: the tagging layer (setupZod.ts,              *)
(* factories.ts) and the generator (generateEntities, parseProperty,       *)
(* unwrapSchema, generateRelations).                                       *)
(*                                                                         *)
(* Schema objects live in a heap: a sequence of records indexed by object  *)
(* identity.  Tags are fields of the record, as the symbol-keyed           *)
(* properties are fields of the JavaScript object.                         *)
(***************************************************************************)
EXTENDS Integers, Sequences, FiniteSets, TLC

VARIABLES heap, schemas, result, relations, tagOps, frame

vars == <<heap, schemas, result, relations, tagOps, frame>>

(***************************************************************************)
(* Bounds of the model.                                                    *)
(***************************************************************************)
MaxDepth == 2
MaxTagOps == 2
MaxFields == 2
MaxSchemas == 2

(* The value of an absent symbol property / optional config member. *)
Undefined == "undefined"

(***************************************************************************)
(* Zod schema objects, as far as the generator looks at them: the class    *)
(* (instanceof), the wrapped schema of a wrapper, the shape of an object,  *)
(* the options of an enum.                                                 *)
(***************************************************************************)
WrapperClasses == {"ZodOptional", "ZodNullable", "ZodArray"}
LeafClasses == {"ZodString", "ZodNumber", "ZodBoolean", "ZodDate", "ZodEnum", "ZodUnion"}

EnumOptions == <<"x", "y">>

ZodSchema(class, inner, shape, options) ==
  [zod |-> class, inner |-> inner, shape |-> shape, options |-> options,
   pk |-> FALSE, unique |-> FALSE, ref |-> <<>>,
   type |-> Undefined, name |-> Undefined, description |-> Undefined]

ZodLeaf(class) ==
  ZodSchema(class, 0, <<>>, IF class = "ZodEnum" THEN EnumOptions ELSE <<>>)

ZodWrapper(class, inner) == ZodSchema(class, inner, <<>>, <<>>)

ZodObject(columns) == ZodSchema("ZodObject", 0, columns, <<>>)

(***************************************************************************)
(* setupZod.ts: tag setters and readers.                                   *)
(***************************************************************************)
(* pk tagging a copy of the schema, as the modifiers of Zod itself return. *)
pkOfCopy(h, this) == Append(h, [h[this] EXCEPT !.pk = TRUE])

pk(h, this) == [h EXCEPT ![this].pk = TRUE]

unique(h, this) == [h EXCEPT ![this].unique = TRUE]

(* ref resetting the unique tag of the schema. *)
refResettingUnique(h, this, targetEntity, targetColumn) ==
  [h EXCEPT ![this].ref =
     <<[targetEntity |-> targetEntity, targetColumn |-> targetColumn]>>,
            ![this].unique = FALSE]

ref(h, this, targetEntity, targetColumn) ==
  [h EXCEPT ![this].ref =
     <<[targetEntity |-> targetEntity, targetColumn |-> targetColumn]>>]

isPrimaryKey(h, schema) == h[schema].pk = TRUE

isUnique(h, schema) == h[schema].unique = TRUE

(* getRefMetadata not seeing a reference to another column than id. *)
getRefMetadataOfId(h, schema) ==
  IF h[schema].ref # <<>> /\ h[schema].ref[1].targetColumn # "id" THEN <<>>
  ELSE h[schema].ref

getRefMetadata(h, schema) == h[schema].ref

(***************************************************************************)
(* factories.ts: entity(), struct(), json() and the readers.               *)
(***************************************************************************)
Tagged(obj, type, config) ==
  [obj EXCEPT !.type = type,
              !.name = config.name,
              !.description = IF config.description # Undefined
                              THEN config.description ELSE @]

entity(h, config) == Append(h, Tagged(ZodObject(config.columns), "entity", config))

struct(h, config) == Append(h, Tagged(ZodObject(config.columns), "struct", config))

(* json tagging a copy of the schema and leaving the schema itself alone. *)
jsonOfCopy(h, config) == Append(h, Tagged(h[config.schema], "json", config))

json(h, config) == [h EXCEPT ![config.schema] = Tagged(@, "json", config)]

getSchemaType(h, schema) == h[schema].type

getSchemaName(h, schema) == h[schema].name

getSchemaDescription(h, schema) == h[schema].description

(***************************************************************************)
(* generator.ts: unwrapSchema.  The while loop strips one layer per        *)
(* iteration; the accumulators are the loop's local variables.             *)
(***************************************************************************)
(* unwrapLoop stopping at an array instead of descending into its element. *)
RECURSIVE unwrapLoopNoArray(_, _, _, _)
unwrapLoopNoArray(h, current, isNullable, isArray) ==
  IF h[current].zod = "ZodOptional" THEN unwrapLoopNoArray(h, h[current].inner, TRUE, isArray)
  ELSE IF h[current].zod = "ZodNullable"
  THEN unwrapLoopNoArray(h, h[current].inner, TRUE, isArray)
  ELSE [innerSchema |-> current, isNullable |-> isNullable, isArray |-> isArray]

RECURSIVE unwrapLoop(_, _, _, _)
unwrapLoop(h, current, isNullable, isArray) ==
  IF h[current].zod = "ZodOptional" THEN unwrapLoop(h, h[current].inner, TRUE, isArray)
  ELSE IF h[current].zod = "ZodNullable" THEN unwrapLoop(h, h[current].inner, TRUE, isArray)
  ELSE IF h[current].zod = "ZodArray" THEN unwrapLoop(h, h[current].inner, isNullable, TRUE)
  ELSE [innerSchema |-> current, isNullable |-> isNullable, isArray |-> isArray]

(* The loop body of unwrapSchema stopping at an array. *)
unwrapIterationNoArray(h, f) ==
  IF h[f.current].zod = "ZodOptional"
  THEN [f EXCEPT !.isNullable = TRUE, !.current = h[f.current].inner]
  ELSE IF h[f.current].zod = "ZodNullable"
  THEN [f EXCEPT !.isNullable = TRUE, !.current = h[f.current].inner]
  ELSE [f EXCEPT !.looping = FALSE]

(***************************************************************************)
(* unwrapSchema one iteration at a time: unwrapEntry is the frame at the   *)
(* head of the loop, unwrapIteration one pass through its body, which      *)
(* either strips the layer at `current` or breaks, and unwrapReturn the    *)
(* value returned after the break.                                         *)
(***************************************************************************)
unwrapEntry(schema) ==
  [current |-> schema, isNullable |-> FALSE, isArray |-> FALSE, looping |-> TRUE]

unwrapIteration(h, f) ==
  IF h[f.current].zod = "ZodOptional"
  THEN [f EXCEPT !.isNullable = TRUE, !.current = h[f.current].inner]
  ELSE IF h[f.current].zod = "ZodNullable"
  THEN [f EXCEPT !.isNullable = TRUE, !.current = h[f.current].inner]
  ELSE IF h[f.current].zod = "ZodArray"
  THEN [f EXCEPT !.isArray = TRUE, !.current = h[f.current].inner]
  ELSE [f EXCEPT !.looping = FALSE]

unwrapReturn(f) ==
  [innerSchema |-> f.current, isNullable |-> f.isNullable, isArray |-> f.isArray]

(* unwrapSchema reporting the nullability of the outermost layer only. *)
unwrapSchemaOutermostNullable(h, schema) ==
  [unwrapLoop(h, schema, FALSE, FALSE)
     EXCEPT !.isNullable = h[schema].zod \in {"ZodOptional", "ZodNullable"}]

unwrapSchema(h, schema) == unwrapLoop(h, schema, FALSE, FALSE)

(***************************************************************************)
(* generator.ts: getPrimitiveType and getAcceptableValues.  null is the    *)
(* string "null".                                                          *)
(***************************************************************************)
Null == "null"

(* getPrimitiveType taking every other schema for a string. *)
getPrimitiveTypeOrString(h, schema) ==
  IF h[schema].zod = "ZodNumber" THEN "number"
  ELSE IF h[schema].zod = "ZodBoolean" THEN "boolean"
  ELSE IF h[schema].zod = "ZodDate" THEN "Date"
  ELSE "string"

getPrimitiveType(h, schema) ==
  IF h[schema].zod = "ZodString" THEN "string"
  ELSE IF h[schema].zod = "ZodNumber" THEN "number"
  ELSE IF h[schema].zod = "ZodBoolean" THEN "boolean"
  ELSE IF h[schema].zod = "ZodDate" THEN "Date"
  ELSE IF h[schema].zod = "ZodEnum" THEN "string"
  ELSE Null

(* getAcceptableValues listing the options last to first. *)
getAcceptableValuesReversed(h, schema) ==
  IF h[schema].zod = "ZodEnum"
  THEN <<[i \in 1..Len(h[schema].options) |->
            h[schema].options[Len(h[schema].options) + 1 - i]]>>
  ELSE <<>>

getAcceptableValues(h, schema) ==
  IF h[schema].zod = "ZodEnum" THEN <<h[schema].options>> ELSE <<>>

(***************************************************************************)
(* generator.ts: parseProperty.  A call either returns a property or       *)
(* throws; Return and Throw are the two outcomes.                          *)
(***************************************************************************)
Return(value) == [threw |-> FALSE, value |-> value]

Throw(message, name) == [threw |-> TRUE, error |-> [message |-> message, name |-> name]]

(* isPk giving way to a reference tag. *)
isPkUnlessRef(h, fieldSchema, innerSchema) ==
  /\ isPrimaryKey(h, fieldSchema) \/ isPrimaryKey(h, innerSchema)
  /\ getRefMetadata(h, fieldSchema) = <<>>
  /\ getRefMetadata(h, innerSchema) = <<>>

isPk(h, fieldSchema, innerSchema) ==
  isPrimaryKey(h, fieldSchema) \/ isPrimaryKey(h, innerSchema)

isUniqueField(h, fieldSchema, innerSchema) ==
  isUnique(h, fieldSchema) \/ isUnique(h, innerSchema)

(* refMetadata reading the raw field schema only. *)
refMetadataOuterOnly(h, fieldSchema, innerSchema) == getRefMetadata(h, fieldSchema)

refMetadata(h, fieldSchema, innerSchema) ==
  IF getRefMetadata(h, fieldSchema) # <<>>
  THEN getRefMetadata(h, fieldSchema)
  ELSE getRefMetadata(h, innerSchema)

(* parseReference without the check of the target's kind. *)
parseReferenceUnchecked(h, fieldName, targetEntity, uniq, isNullable) ==
  Return([isReference |-> TRUE,
          name |-> fieldName,
          targetEntityDefinitionName |-> getSchemaName(h, targetEntity),
          isUnique |-> uniq,
          isNullable |-> isNullable])

parseReference(h, fieldName, targetEntity, uniq, isNullable) ==
  IF getSchemaType(h, targetEntity) # "entity"
  THEN Throw("has .ref() pointing to a non-entity schema", fieldName)
  ELSE IF getSchemaName(h, targetEntity) = Undefined
  THEN Throw("Referenced entity must have a name", fieldName)
  ELSE Return([isReference |-> TRUE,
               name |-> fieldName,
               targetEntityDefinitionName |-> getSchemaName(h, targetEntity),
               isUnique |-> uniq,
               isNullable |-> isNullable])

parseStruct(h, fieldName, innerSchema, uniq, isNullable, isArray) ==
  IF getSchemaName(h, innerSchema) = Undefined
  THEN Throw("Struct schema must have a name", fieldName)
  ELSE Return([isReference |-> FALSE,
               propertyType |-> "typedStruct",
               name |-> fieldName,
               structTypeName |-> getSchemaName(h, innerSchema),
               isUnique |-> uniq,
               isNullable |-> isNullable,
               isArray |-> isArray])

(* parsePrimitive emitting a property for a schema with no primitive type. *)
parsePrimitiveNoThrow(h, fieldName, innerSchema, uniq, isNullable, isArray) ==
  Return([isReference |-> FALSE,
          propertyType |-> getPrimitiveType(h, innerSchema),
          name |-> fieldName,
          isUnique |-> uniq,
          isNullable |-> isNullable,
          isArray |-> isArray,
          acceptableValues |-> getAcceptableValues(h, innerSchema)])

parsePrimitive(h, fieldName, innerSchema, uniq, isNullable, isArray) ==
  IF getPrimitiveType(h, innerSchema) # Null
  THEN Return([isReference |-> FALSE,
               propertyType |-> getPrimitiveType(h, innerSchema),
               name |-> fieldName,
               isUnique |-> uniq,
               isNullable |-> isNullable,
               isArray |-> isArray,
               acceptableValues |-> getAcceptableValues(h, innerSchema)])
  ELSE Throw("Unsupported schema type", fieldName)

isStructType(innerSchemaType) == innerSchemaType = "struct"

(* parseProperty rejecting an embedded entity before it looks at the pk tag. *)
parsePropertyEmbeddingFirst(h, fieldName, fieldSchema) ==
  LET u == unwrapSchema(h, fieldSchema)
      innerSchema == u.innerSchema
      uniq == isUniqueField(h, fieldSchema, innerSchema)
      meta == refMetadata(h, fieldSchema, innerSchema)
      innerSchemaType == getSchemaType(h, innerSchema)
  IN  IF innerSchemaType = "entity" /\ meta = <<>>
      THEN Throw("contains a direct entity embedding", fieldName)
      ELSE IF isPk(h, fieldSchema, innerSchema)
      THEN Return([isReference |-> FALSE, propertyType |-> "PrimaryKey", name |-> fieldName])
      ELSE IF meta # <<>>
      THEN parseReference(h, fieldName, meta[1].targetEntity, uniq, u.isNullable)
      ELSE IF isStructType(innerSchemaType)
      THEN parseStruct(h, fieldName, innerSchema, uniq, u.isNullable, u.isArray)
      ELSE parsePrimitive(h, fieldName, innerSchema, uniq, u.isNullable, u.isArray)

parseProperty(h, fieldName, fieldSchema) ==
  LET u == unwrapSchema(h, fieldSchema)
      innerSchema == u.innerSchema
      uniq == isUniqueField(h, fieldSchema, innerSchema)
      meta == refMetadata(h, fieldSchema, innerSchema)
      innerSchemaType == getSchemaType(h, innerSchema)
  IN  IF isPk(h, fieldSchema, innerSchema)
      THEN Return([isReference |-> FALSE, propertyType |-> "PrimaryKey", name |-> fieldName])
      ELSE IF meta # <<>>
      THEN parseReference(h, fieldName, meta[1].targetEntity, uniq, u.isNullable)
      ELSE IF innerSchemaType = "entity"
      THEN Throw("contains a direct entity embedding", fieldName)
      ELSE IF isStructType(innerSchemaType)
      THEN parseStruct(h, fieldName, innerSchema, uniq, u.isNullable, u.isArray)
      ELSE parsePrimitive(h, fieldName, innerSchema, uniq, u.isNullable, u.isArray)

(***************************************************************************)
(* generator.ts: generateEntities.  Two nested loops; a throw anywhere     *)
(* leaves both loops and nothing is returned.                              *)
(***************************************************************************)
(* parseFields skipping a field that fails instead of rethrowing. *)
RECURSIVE parseFieldsSkipping(_, _, _, _)
parseFieldsSkipping(h, shape, i, properties) ==
  IF i > Len(shape) THEN Return(properties)
  ELSE LET property == parseProperty(h, shape[i].name, shape[i].schema)
       IN  parseFieldsSkipping(h, shape, i + 1,
             IF property.threw THEN properties ELSE Append(properties, property.value))

RECURSIVE parseFields(_, _, _, _)
parseFields(h, shape, i, properties) ==
  IF i > Len(shape) THEN Return(properties)
  ELSE LET property == parseProperty(h, shape[i].name, shape[i].schema)
       IN  IF property.threw THEN property
           ELSE parseFields(h, shape, i + 1, Append(properties, property.value))

(* entityDefinition always carrying a description key. *)
entityDefinitionWithKey(name, properties, description) ==
  [name |-> name, properties |-> properties, description |-> description]

entityDefinition(name, properties, description) ==
  IF description # Undefined
  THEN [name |-> name, properties |-> properties, description |-> description]
  ELSE [name |-> name, properties |-> properties]

(* skipSchema skipping untagged schemas only. *)
skipUntaggedOnly(h, schema) == getSchemaType(h, schema) = Undefined

skipSchema(h, schema) == getSchemaType(h, schema) # "entity"

(* generateLoop parsing the fields of every entity in reverse order. *)
RECURSIVE generateLoopBackwards(_, _, _, _)
generateLoopBackwards(h, input, i, definitions) ==
  IF i > Len(input) THEN Return(definitions)
  ELSE LET schema == input[i] IN
    IF skipSchema(h, schema)
    THEN generateLoopBackwards(h, input, i + 1, definitions)
    ELSE IF getSchemaName(h, schema) = Undefined
    THEN Throw("Entity schema must have a name", Undefined)
    ELSE LET shape == h[schema].shape
             properties ==
               parseFields(h, [k \in 1..Len(shape) |-> shape[Len(shape) + 1 - k]], 1, <<>>)
         IN
      IF properties.threw THEN properties
      ELSE generateLoopBackwards(h, input, i + 1,
             Append(definitions,
                    entityDefinition(getSchemaName(h, schema), properties.value,
                                     getSchemaDescription(h, schema))))

(* generateLoop requiring a ZodObject before it requires a name. *)
RECURSIVE generateLoopShapeFirst(_, _, _, _)
generateLoopShapeFirst(h, input, i, definitions) ==
  IF i > Len(input) THEN Return(definitions)
  ELSE LET schema == input[i] IN
    IF skipSchema(h, schema)
    THEN generateLoopShapeFirst(h, input, i + 1, definitions)
    ELSE IF h[schema].zod # "ZodObject"
    THEN Throw("Entity must be a ZodObject", getSchemaName(h, schema))
    ELSE IF getSchemaName(h, schema) = Undefined
    THEN Throw("Entity schema must have a name", Undefined)
    ELSE LET properties == parseFields(h, h[schema].shape, 1, <<>>) IN
      IF properties.threw THEN properties
      ELSE generateLoopShapeFirst(h, input, i + 1,
             Append(definitions,
                    entityDefinition(getSchemaName(h, schema), properties.value,
                                     getSchemaDescription(h, schema))))

RECURSIVE generateLoop(_, _, _, _)
generateLoop(h, input, i, definitions) ==
  IF i > Len(input) THEN Return(definitions)
  ELSE LET schema == input[i] IN
    IF skipSchema(h, schema)
    THEN generateLoop(h, input, i + 1, definitions)
    ELSE IF getSchemaName(h, schema) = Undefined
    THEN Throw("Entity schema must have a name", Undefined)
    ELSE IF h[schema].zod # "ZodObject"
    THEN Throw("Entity must be a ZodObject", getSchemaName(h, schema))
    ELSE LET properties == parseFields(h, h[schema].shape, 1, <<>>) IN
      IF properties.threw THEN properties
      ELSE generateLoop(h, input, i + 1,
             Append(definitions,
                    entityDefinition(getSchemaName(h, schema), properties.value,
                                     getSchemaDescription(h, schema))))

(* generateEntities requiring every reference target to be in the input. *)
generateEntitiesOfListedTargets(h, input) ==
  IF \E i \in 1..Len(input) :
       /\ ~skipSchema(h, input[i])
       /\ \E k \in 1..Len(h[input[i]].shape) :
            LET meta == getRefMetadata(h, h[input[i]].shape[k].schema) IN
              /\ meta # <<>>
              /\ \A j \in 1..Len(input) : input[j] # meta[1].targetEntity
  THEN Throw("Referenced entity is not in the input", Undefined)
  ELSE generateLoop(h, input, 1, <<>>)

generateEntities(h, input) == generateLoop(h, input, 1, <<>>)

(***************************************************************************)
(* generator.ts: generateRelations.                                        *)
(***************************************************************************)
edge(entityName, prop) ==
  [entityName |-> entityName, propertyName |-> prop.name, isUnique |-> prop.isUnique]

(* referTosOf keeping one edge per target entity. *)
RECURSIVE referTosOfDistinctTargets(_, _, _)
referTosOfDistinctTargets(properties, i, referTos) ==
  IF i > Len(properties) THEN referTos
  ELSE referTosOfDistinctTargets(properties, i + 1,
         IF /\ properties[i].isReference
            /\ \A j \in 1..Len(referTos) :
                 referTos[j].entityName # properties[i].targetEntityDefinitionName
         THEN Append(referTos, edge(properties[i].targetEntityDefinitionName, properties[i]))
         ELSE referTos)

RECURSIVE referTosOf(_, _, _)
referTosOf(properties, i, referTos) ==
  IF i > Len(properties) THEN referTos
  ELSE referTosOf(properties, i + 1,
         IF properties[i].isReference
         THEN Append(referTos, edge(properties[i].targetEntityDefinitionName, properties[i]))
         ELSE referTos)

(* referredBysFrom without the comparison of the target's name. *)
RECURSIVE referredBysFromAnyTarget(_, _, _, _)
referredBysFromAnyTarget(otherDef, defName, i, referredBys) ==
  IF i > Len(otherDef.properties) THEN referredBys
  ELSE referredBysFromAnyTarget(otherDef, defName, i + 1,
         IF otherDef.properties[i].isReference
         THEN Append(referredBys, edge(otherDef.name, otherDef.properties[i]))
         ELSE referredBys)

RECURSIVE referredBysFrom(_, _, _, _)
referredBysFrom(otherDef, defName, i, referredBys) ==
  IF i > Len(otherDef.properties) THEN referredBys
  ELSE referredBysFrom(otherDef, defName, i + 1,
         IF otherDef.properties[i].isReference
            /\ otherDef.properties[i].targetEntityDefinitionName = defName
         THEN Append(referredBys, edge(otherDef.name, otherDef.properties[i]))
         ELSE referredBys)

(* skipOther never skipping: a definition scans its own properties too. *)
skipNone(otherDef, def) == FALSE

skipOther(otherDef, def) == otherDef.name = def.name

(* referredBysOf putting the edges of a later definition first. *)
RECURSIVE referredBysOfLatestFirst(_, _, _, _)
referredBysOfLatestFirst(definitions, def, j, referredBys) ==
  IF j > Len(definitions) THEN referredBys
  ELSE referredBysOfLatestFirst(definitions, def, j + 1,
         IF skipOther(definitions[j], def) THEN referredBys
         ELSE referredBysFrom(definitions[j], def.name, 1, <<>>) \o referredBys)

RECURSIVE referredBysOf(_, _, _, _)
referredBysOf(definitions, def, j, referredBys) ==
  IF j > Len(definitions) THEN referredBys
  ELSE referredBysOf(definitions, def, j + 1,
         IF skipOther(definitions[j], def) THEN referredBys
         ELSE referredBysFrom(definitions[j], def.name, 1, referredBys))

(* generateRelations leaving out the definitions without any edge. *)
HasEdge(relation) == relation.referTos # <<>> \/ relation.referredBys # <<>>

generateRelationsOfLinked(definitions) ==
  SelectSeq([i \in 1..Len(definitions) |->
               [entityName |-> definitions[i].name,
                referTos |-> referTosOf(definitions[i].properties, 1, <<>>),
                referredBys |-> referredBysOf(definitions, definitions[i], 1, <<>>)]],
            HasEdge)

generateRelations(definitions) ==
  [i \in 1..Len(definitions) |->
     [entityName |-> definitions[i].name,
      referTos |-> referTosOf(definitions[i].properties, 1, <<>>),
      referredBys |-> referredBysOf(definitions, definitions[i], 1, <<>>)]]

(***************************************************************************)
(* The schemas every scenario starts from, built with the factories:       *)
(*   1  z.string().pk()                 the id column of B                 *)
(*   2  B = entity({name: "B", description: "d", columns: {id: 1}})        *)
(*   3  S = struct({name: "S", columns: {}})                               *)
(*   4  J = json({name: "J", schema: z.union([...])})                      *)
(*   5  O = z.object({})                untagged                           *)
(***************************************************************************)
Config(name, description, columns) ==
  [name |-> name, description |-> description, columns |-> columns]

JsonConfig(name, description, schema) ==
  [name |-> name, description |-> description, schema |-> schema]

Column(name, schema) == [name |-> name, schema |-> schema]

B == 2
S == 3
J == 4
O == 5

BaseHeap ==
  LET h1 == pk(<<ZodLeaf("ZodString")>>, 1)
      h2 == entity(h1, Config("B", "d", <<Column("id", 1)>>))
      h3 == struct(h2, Config("S", Undefined, <<>>))
      h4 == json(Append(h3, ZodLeaf("ZodUnion")), JsonConfig("J", Undefined, J))
  IN  Append(h4, ZodObject(<<>>))

(***************************************************************************)
(* One field under test: a base schema (a fresh leaf or one of the         *)
(* schemas above) under at most MaxDepth wrappers, held by the column f of *)
(* the entity A, which is the last object of the heap.                     *)
(***************************************************************************)
RECURSIVE WrapAll(_, _, _, _)
WrapAll(h, inner, classes, i) ==
  IF i > Len(classes) THEN h
  ELSE WrapAll(Append(h, ZodWrapper(classes[i], inner)), Len(h) + 1, classes, i + 1)

WrapperSeqs == UNION {[1..n -> WrapperClasses] : n \in 0..MaxDepth}

Bases ==
  {[h |-> Append(BaseHeap, ZodLeaf(class)), base |-> Len(BaseHeap) + 1] : class \in LeafClasses}
  \cup {[h |-> BaseHeap, base |-> top] : top \in {B, S, J}}

FieldHeap(b, classes) ==
  LET h1 == WrapAll(b.h, b.base, classes, 1)
      head == IF Len(classes) = 0 THEN b.base ELSE Len(h1)
  IN  entity(h1, Config("A", Undefined, <<Column("f", head)>>))

A(h) == Len(h)

FieldOf(h) == h[A(h)].shape[1].schema

RECURSIVE Chain(_, _)
Chain(h, o) == IF h[o].zod \in WrapperClasses THEN {o} \cup Chain(h, h[o].inner) ELSE {o}

NotCalled == <<>>

Init ==
  /\ \E b \in Bases : \E classes \in WrapperSeqs : heap = FieldHeap(b, classes)
  /\ schemas = <<>>
  /\ result = NotCalled
  /\ relations = NotCalled
  /\ tagOps = 0
  /\ frame = NotCalled

(***************************************************************************)
(* Tagging calls on the layers of the field, before generation.            *)
(***************************************************************************)
RefTargets == {B, S, J, O}

TargetColumns == {"id"}

Tagging == result = NotCalled /\ tagOps < MaxTagOps

Pk ==
  /\ Tagging
  /\ \E this \in Chain(heap, FieldOf(heap)) : heap' = pk(heap, this)
  /\ tagOps' = tagOps + 1
  /\ UNCHANGED <<schemas, result, relations, frame>>

Unique ==
  /\ Tagging
  /\ \E this \in Chain(heap, FieldOf(heap)) : heap' = unique(heap, this)
  /\ tagOps' = tagOps + 1
  /\ UNCHANGED <<schemas, result, relations, frame>>

(* Ref refusing a target that is not tagged as an entity. *)
RefValidating ==
  /\ Tagging
  /\ \E this \in Chain(heap, FieldOf(heap)) :
       \E targetEntity \in {t \in RefTargets : getSchemaType(heap, t) = "entity"} :
         \E targetColumn \in TargetColumns :
           heap' = ref(heap, this, targetEntity, targetColumn)
  /\ tagOps' = tagOps + 1
  /\ UNCHANGED <<schemas, result, relations, frame>>

Ref ==
  /\ Tagging
  /\ \E this \in Chain(heap, FieldOf(heap)) :
       \E targetEntity \in RefTargets :
         \E targetColumn \in TargetColumns :
           heap' = ref(heap, this, targetEntity, targetColumn)
  /\ tagOps' = tagOps + 1
  /\ UNCHANGED <<schemas, result, relations, frame>>

(***************************************************************************)
(* The generation calls.                                                   *)
(***************************************************************************)
(* Generate consuming the ref tags of the schemas it has walked. *)
GenerateConsumingRefs(inputs) ==
  /\ result = NotCalled
  /\ \E input \in inputs :
       /\ schemas' = input
       /\ result' = <<generateEntities(heap, input)>>
  /\ heap' = [o \in DOMAIN heap |-> [heap[o] EXCEPT !.ref = <<>>]]
  /\ UNCHANGED <<relations, tagOps, frame>>

Generate(inputs) ==
  /\ result = NotCalled
  /\ \E input \in inputs :
       /\ schemas' = input
       /\ result' = <<generateEntities(heap, input)>>
  /\ UNCHANGED <<heap, relations, tagOps, frame>>

GenerateEntitiesOfField == Generate({<<B, A(heap)>>})

GenerateRelations ==
  /\ result # NotCalled
  /\ ~result[1].threw
  /\ relations = NotCalled
  /\ relations' = <<generateRelations(result[1].value)>>
  /\ UNCHANGED <<heap, schemas, result, tagOps, frame>>

Next == Pk \/ Unique \/ Ref \/ GenerateEntitiesOfField \/ GenerateRelations

Spec == Init /\ [][Next]_vars

(***************************************************************************)
(* Batches.  Four field schemas are shared by two object schemas:          *)
(*   1  z.string().pk()                                                    *)
(*   2  z.string().ref(T1)                                                 *)
(*   3  z.string().ref(T2).unique()                                        *)
(*   4  z.union([...])                  no primitive type                  *)
(*   5  T1 = entity({name: "A", columns})                                  *)
(*   6  T2 = entity / struct / json / plain object, named "A", "B" or      *)
(*      with no name                                                       *)
(* Each has at most MaxFields columns f1, f2, ... drawn from 1..4; the     *)
(* input of generateEntities is any list of at most MaxSchemas of T1, T2.  *)
(***************************************************************************)
T1 == 5
T2 == 6

FieldNames == <<"f1", "f2", "f3", "f4">>

Pool ==
  unique(ref(ref(pk(<<ZodLeaf("ZodString"), ZodLeaf("ZodString"), ZodLeaf("ZodString"),
                      ZodLeaf("ZodUnion")>>, 1), 2, T1, "id"), 3, T2, "id"), 3)

Shapes == UNION {[1..n -> 1..Len(Pool)] : n \in 0..MaxFields}

Columns(shape) == [k \in 1..Len(shape) |-> Column(FieldNames[k], shape[k])]

Second(h, type, config) ==
  IF type = "entity" THEN entity(h, config)
  ELSE IF type = "struct" THEN struct(h, config)
  ELSE IF type = "json"
  THEN json(Append(h, ZodObject(config.columns)),
            JsonConfig(config.name, config.description, Len(h) + 1))
  ELSE Append(h, ZodObject(config.columns))

InitBatch ==
  /\ \E shape1 \in Shapes, shape2 \in Shapes :
       \E type \in {"entity", "struct", "json", Undefined} :
         \E name \in {"A", "B", Undefined} :
           /\ type = Undefined => name = Undefined
           /\ heap = Second(entity(Pool, Config("A", Undefined, Columns(shape1))),
                            type, Config(name, "d", Columns(shape2)))
  /\ schemas = <<>>
  /\ result = NotCalled
  /\ relations = NotCalled
  /\ tagOps = 0
  /\ frame = NotCalled

InputLists == UNION {[1..n -> {T1, T2}] : n \in 0..MaxSchemas}

GenerateEntities == Generate(InputLists)

NextBatch == GenerateEntities \/ GenerateRelations

SpecBatch == InitBatch /\ [][NextBatch]_vars

(***************************************************************************)
(* Graphs.  Three entities share three field schemas:                      *)
(*   1  z.string().pk()                                                    *)
(*   2  z.string().ref(Department)                                         *)
(*   3  z.string().ref(Employee).unique()                                  *)
(*   4  Department   5  Employee   6  Project                              *)
(* Each entity has at most MaxFields columns f1, f2, ... drawn from 1..3,  *)
(* and the input of generateEntities lists the three entities in any       *)
(* order.                                                                  *)
(***************************************************************************)
Department == 4
Employee == 5
Project == 6

GraphPool ==
  unique(ref(ref(pk(<<ZodLeaf("ZodString"), ZodLeaf("ZodString"), ZodLeaf("ZodString")>>, 1),
                 2, Department, "id"), 3, Employee, "id"), 3)

GraphShapes == UNION {[1..n -> 1..Len(GraphPool)] : n \in 0..MaxFields}

InitGraph ==
  /\ \E shape1 \in GraphShapes, shape2 \in GraphShapes, shape3 \in GraphShapes :
       heap = entity(entity(entity(GraphPool,
                                   Config("Department", Undefined, Columns(shape1))),
                            Config("Employee", Undefined, Columns(shape2))),
                     Config("Project", Undefined, Columns(shape3)))
  /\ schemas = <<>>
  /\ result = NotCalled
  /\ relations = NotCalled
  /\ tagOps = 0
  /\ frame = NotCalled

GraphInputs ==
  {input \in [1..3 -> {Department, Employee, Project}] :
     \A i, j \in 1..3 : input[i] = input[j] => i = j}

GenerateEntitiesOfGraph == Generate(GraphInputs)

NextGraph == GenerateEntitiesOfGraph \/ GenerateRelations

SpecGraph == InitGraph /\ [][NextGraph]_vars

(***************************************************************************)
(* Late tagging.  One field schema is shared by the fields of two          *)
(* entities; the schemas are tagged after the entities were built:         *)
(*   1  Id = z.string()                     untagged at first              *)
(*   2  Account = entity({name: "A", columns: {f1: Id}})                   *)
(*   3  Profile = entity({name: "B", description: "d",                     *)
(*                        columns: {f1: Id, f2: Id}})                      *)
(*   4  Scalar = z.string() carrying the entity kind under                 *)
(*      SCHEMA_METADATA_SYMBOLS, with a name or without                    *)
(* pk(), unique() and ref() are called on Id and json() on Account or      *)
(* Profile, then generateEntities on any list of at most MaxSchemas of     *)
(* Account, Profile and Scalar.                                            *)
(***************************************************************************)
Id == 1
Account == 2
Profile == 3
Scalar == 4

LateHeap(name) ==
  Append(entity(entity(<<ZodLeaf("ZodString")>>,
                       Config("A", Undefined, <<Column("f1", Id)>>)),
                Config("B", "d", <<Column("f1", Id), Column("f2", Id)>>)),
         Tagged(ZodLeaf("ZodString"), "entity", Config(name, Undefined, <<>>)))

InitLate ==
  /\ \E name \in {"N", Undefined} : heap = LateHeap(name)
  /\ schemas = <<>>
  /\ result = NotCalled
  /\ relations = NotCalled
  /\ tagOps = 0
  /\ frame = NotCalled

PkLate ==
  /\ Tagging
  /\ heap' = pk(heap, Id)
  /\ tagOps' = tagOps + 1
  /\ UNCHANGED <<schemas, result, relations, frame>>

UniqueLate ==
  /\ Tagging
  /\ heap' = unique(heap, Id)
  /\ tagOps' = tagOps + 1
  /\ UNCHANGED <<schemas, result, relations, frame>>

RefLate ==
  /\ Tagging
  /\ \E targetEntity \in {Account, Profile} :
       \E targetColumn \in TargetColumns :
         heap' = ref(heap, Id, targetEntity, targetColumn)
  /\ tagOps' = tagOps + 1
  /\ UNCHANGED <<schemas, result, relations, frame>>

JsonLate ==
  /\ Tagging
  /\ \E schema \in {Account, Profile} :
       \E description \in {Undefined, "j"} :
         heap' = json(heap, JsonConfig("J", description, schema))
  /\ tagOps' = tagOps + 1
  /\ UNCHANGED <<schemas, result, relations, frame>>

LateInputs == UNION {[1..n -> {Account, Profile, Scalar}] : n \in 0..MaxSchemas}

GenerateEntitiesLate == Generate(LateInputs)

NextLate ==
  PkLate \/ UniqueLate \/ RefLate \/ JsonLate \/ GenerateEntitiesLate \/ GenerateRelations

SpecLate == InitLate /\ [][NextLate]_vars

(***************************************************************************)
(* The loop of unwrapSchema on the schema of the field f of A, one         *)
(* iteration per step.  The call runs to completion once entered, so the   *)
(* iteration is weakly fair.                                               *)
(***************************************************************************)
InitUnwrap ==
  /\ \E b \in Bases : \E classes \in WrapperSeqs : heap = FieldHeap(b, classes)
  /\ schemas = <<>>
  /\ result = NotCalled
  /\ relations = NotCalled
  /\ tagOps = 0
  /\ frame = unwrapEntry(FieldOf(heap))

UnwrapIteration ==
  /\ frame.looping
  /\ frame' = unwrapIteration(heap, frame)
  /\ UNCHANGED <<heap, schemas, result, relations, tagOps>>

NextUnwrap == UnwrapIteration

SpecUnwrap == InitUnwrap /\ [][NextUnwrap]_vars /\ WF_vars(UnwrapIteration)

(***************************************************************************)
(* Vocabulary of the properties.  The layers of the field and the flags a  *)
(* reader of the schema would expect are stated on the heap directly, not  *)
(* through unwrapSchema.                                                   *)
(***************************************************************************)
Generated == result # NotCalled
Threw == Generated /\ result[1].threw
Returned == Generated /\ ~result[1].threw

Field == FieldOf(heap)
Layers == Chain(heap, Field)
Base == CHOOSE o \in Layers : heap[o].zod \notin WrapperClasses

HasNullableLayer == \E o \in Layers : heap[o].zod \in {"ZodOptional", "ZodNullable"}
HasArrayLayer == \E o \in Layers : heap[o].zod = "ZodArray"

NoTags(o) == ~heap[o].pk /\ ~heap[o].unique /\ heap[o].ref = <<>>

PkTagged == heap[Field].pk \/ heap[Base].pk
UniqueTagged == heap[Field].unique \/ heap[Base].unique
RefTag == IF heap[Field].ref # <<>> THEN heap[Field].ref ELSE heap[Base].ref
RefTagged == RefTag # <<>>

(* The definition of A is the second one, after B's; f is its only field. *)
FieldProp == result[1].value[2].properties[1]

ThrewFor(message) ==
  Threw /\ result[1].error = [message |-> message, name |-> "f"]

IsPrimaryKeyProp(p) ==
  /\ DOMAIN p = {"isReference", "propertyType", "name"}
  /\ ~p.isReference /\ p.propertyType = "PrimaryKey"

IsReferencedObject(p) ==
  /\ DOMAIN p = {"isReference", "name", "targetEntityDefinitionName", "isUnique", "isNullable"}
  /\ p.isReference

IsTypedStruct(p) ==
  /\ DOMAIN p = {"isReference", "propertyType", "name", "structTypeName",
                 "isUnique", "isNullable", "isArray"}
  /\ ~p.isReference /\ p.propertyType = "typedStruct"

IsPrimitive(p) ==
  /\ DOMAIN p = {"isReference", "propertyType", "name", "isUnique", "isNullable",
                 "isArray", "acceptableValues"}
  /\ ~p.isReference /\ p.propertyType \in {"boolean", "number", "string", "Date"}

VariantCount(p) ==
  Cardinality({v \in 1..4 : \/ v = 1 /\ IsPrimaryKeyProp(p)
                            \/ v = 2 /\ IsReferencedObject(p)
                            \/ v = 3 /\ IsTypedStruct(p)
                            \/ v = 4 /\ IsPrimitive(p)})

EveryProp(definitions, P(_)) ==
  \A i \in 1..Len(definitions) :
    \A k \in 1..Len(definitions[i].properties) : P(definitions[i].properties[k])

ClassificationErrors ==
  {"has .ref() pointing to a non-entity schema", "Referenced entity must have a name",
   "contains a direct entity embedding", "Struct schema must have a name",
   "Unsupported schema type"}

(***************************************************************************)
(* C2 as claimed: every field of every entity yields exactly one of the    *)
(* four variants, never zero: generation never ends without a property     *)
(* for the field.                                                          *)
(***************************************************************************)
ExactlyOneVariant(p) == VariantCount(p) = 1

C2_AsClaimed ==
  Generated => Returned /\ EveryProp(result[1].value, ExactlyOneVariant)

(***************************************************************************)
(* C2 amended: classifying a field either throws one of the classification *)
(* errors, naming the field, or yields exactly one of the four variants;   *)
(* no emitted property is both a reference and a PrimaryKey.               *)
(***************************************************************************)
NotBothPkAndRef(p) ==
  p.isReference => ("propertyType" \notin DOMAIN p /\ ~IsPrimaryKeyProp(p))

C2_ExactlyOneVariantOrError ==
  Generated =>
    \/ /\ Threw
       /\ result[1].error.message \in ClassificationErrors
       /\ result[1].error.name = "f"
    \/ /\ Returned
       /\ Len(result[1].value) = 2
       /\ Len(result[1].value[2].properties) = 1
       /\ EveryProp(result[1].value, ExactlyOneVariant)
       /\ EveryProp(result[1].value, NotBothPkAndRef)

C2_Witness == Returned /\ IsReferencedObject(FieldProp) /\ heap[Base].zod = "ZodNumber"

(***************************************************************************)
(* C3: with one nullable() or optional() wrapper, a tag (ref, pk, unique)  *)
(* applied before the wrapper and the same tag applied after it give the   *)
(* same outcome; a ref(B) on either layer gives the ReferencedObject to B  *)
(* with isNullable true.                                                   *)
(***************************************************************************)
OneWrapper ==
  /\ heap[Field].zod \in {"ZodNullable", "ZodOptional"}
  /\ heap[Field].inner = Base

SwapTags(h, a, b) ==
  [h EXCEPT ![a].pk = h[b].pk, ![a].unique = h[b].unique, ![a].ref = h[b].ref,
            ![b].pk = h[a].pk, ![b].unique = h[a].unique, ![b].ref = h[a].ref]

C3_ModifierOrderIndependence ==
  (Generated /\ OneWrapper /\ (NoTags(Field) \/ NoTags(Base))) =>
    /\ result[1] = generateEntities(SwapTags(heap, Field, Base), schemas)
    /\ (RefTagged /\ RefTag[1].targetEntity = B /\ ~PkTagged) =>
         /\ Returned
         /\ FieldProp = [isReference |-> TRUE, name |-> "f",
                         targetEntityDefinitionName |-> "B",
                         isUnique |-> UniqueTagged, isNullable |-> TRUE]
    /\ PkTagged =>
         /\ Returned
         /\ FieldProp = [isReference |-> FALSE, propertyType |-> "PrimaryKey", name |-> "f"]
    /\ (UniqueTagged /\ Returned /\ ~PkTagged) => FieldProp.isUnique

C3_Witness ==
  /\ Returned /\ OneWrapper /\ NoTags(Field)
  /\ heap[Base].ref # <<>> /\ heap[Base].ref[1].targetEntity = B
  /\ IsReferencedObject(FieldProp) /\ FieldProp.isNullable

(***************************************************************************)
(* C4 as claimed: a tag attached to any one layer of the wrapper chain     *)
(* (outermost, intermediate or innermost) classifies the field exactly as  *)
(* if the tag were on the outermost schema.                                *)
(***************************************************************************)
TaggedLayers == {o \in Layers : ~NoTags(o)}

TagsToOuter(h, o, outer) ==
  IF o = outer THEN h
  ELSE [h EXCEPT ![outer].pk = h[o].pk, ![outer].unique = h[o].unique,
                 ![outer].ref = h[o].ref,
                 ![o].pk = FALSE, ![o].unique = FALSE, ![o].ref = <<>>]

C4_TagsReadThroughAnyLayer ==
  (Generated /\ Cardinality(TaggedLayers) = 1) =>
    \A o \in TaggedLayers :
      result[1] = generateEntities(TagsToOuter(heap, o, Field), schemas)

(***************************************************************************)
(* C5: a field tagged pk and ref (each on the raw or on the unwrapped      *)
(* schema) is emitted as PrimaryKey, never as a reference, and adds no     *)
(* edge to referTos or referredBys.                                        *)
(***************************************************************************)
C5_PkBeforeRef ==
  (Generated /\ PkTagged /\ RefTagged) =>
    /\ Returned
    /\ FieldProp = [isReference |-> FALSE, propertyType |-> "PrimaryKey", name |-> "f"]
    /\ relations # NotCalled =>
         \A i \in 1..Len(relations[1]) :
           relations[1][i].referTos = <<>> /\ relations[1][i].referredBys = <<>>

C5_Witness ==
  /\ relations # NotCalled /\ PkTagged /\ RefTagged
  /\ heap[Field].ref # <<>> /\ heap[Base].pk /\ Field # Base

(***************************************************************************)
(* C6 as claimed: a field whose unwrapped type is an entity and which does *)
(* not use ref() always fails with the embedding error.                    *)
(***************************************************************************)
UsesRef == \E o \in Layers : heap[o].ref # <<>>

C6_AsClaimed ==
  (Generated /\ heap[Base].type = "entity" /\ ~UsesRef) =>
    ThrewFor("contains a direct entity embedding")

(***************************************************************************)
(* C6 amended: a field whose unwrapped type is an entity, under any        *)
(* wrappers, and whose raw and unwrapped schemas carry neither a pk nor a  *)
(* ref tag, fails with the embedding error naming the field; nothing is    *)
(* returned.                                                               *)
(***************************************************************************)
C6_EmbeddingRejected ==
  (Generated /\ heap[Base].type = "entity" /\ ~PkTagged /\ ~RefTagged) =>
    ThrewFor("contains a direct entity embedding")

C6_Witness ==
  /\ ThrewFor("contains a direct entity embedding")
  /\ heap[Field].zod = "ZodOptional" /\ heap[heap[Field].inner].zod = "ZodArray"

(***************************************************************************)
(* C7 as claimed: a field carrying ref(T) with T a struct, a json or an    *)
(* untagged schema always fails with the non-entity-reference error.       *)
(***************************************************************************)
C7_AsClaimed ==
  (Generated /\ RefTagged /\ heap[RefTag[1].targetEntity].type # "entity") =>
    ThrewFor("has .ref() pointing to a non-entity schema")

(***************************************************************************)
(* C7 amended: a field that is not pk-tagged and whose reference (the raw  *)
(* schema's, else the unwrapped schema's) targets a struct, a json or an   *)
(* untagged schema fails with the non-entity-reference error naming it.    *)
(***************************************************************************)
C7_InvalidReferenceRejected ==
  (Generated /\ ~PkTagged /\ RefTagged /\ heap[RefTag[1].targetEntity].type # "entity") =>
    ThrewFor("has .ref() pointing to a non-entity schema")

C7_Witness ==
  /\ ThrewFor("has .ref() pointing to a non-entity schema")
  /\ heap[Base].ref # <<>> /\ heap[Base].ref[1].targetEntity = O /\ Field # Base

(***************************************************************************)
(* C8 as claimed: a field whose unwrapped schema is tagged struct or json  *)
(* and named is emitted as typedStruct under that name, with the flags of  *)
(* its tags and wrappers.                                                  *)
(***************************************************************************)
C8_EmbeddableValues ==
  (Generated /\ ~PkTagged /\ ~RefTagged
     /\ heap[Base].type \in {"struct", "json"} /\ heap[Base].name # Undefined) =>
    /\ Returned
    /\ FieldProp = [isReference |-> FALSE, propertyType |-> "typedStruct", name |-> "f",
                    structTypeName |-> heap[Base].name, isUnique |-> UniqueTagged,
                    isNullable |-> HasNullableLayer, isArray |-> HasArrayLayer]

(***************************************************************************)
(* Vocabulary of the batch properties.                                     *)
(***************************************************************************)
Defs == result[1].value
Rels == relations[1]
Related == relations # NotCalled

Count(seq, e) == Cardinality({i \in 1..Len(seq) : seq[i] = e})

DistinctNames(definitions) ==
  \A a, b \in 1..Len(definitions) : definitions[a].name = definitions[b].name => a = b

OutEdge(definitions, b, p) ==
  [entityName |-> definitions[b].name, propertyName |-> p.name, isUnique |-> p.isUnique]

InEdge(definitions, a, p) ==
  [entityName |-> definitions[a].name, propertyName |-> p.name, isUnique |-> p.isUnique]

(* Every reference property of a that targets b is once in a's referTos *)
(* and once in b's referredBys. *)
EdgeOnBothSides(a, b) ==
  \A k \in 1..Len(Defs[a].properties) :
    LET p == Defs[a].properties[k] IN
      (p.isReference /\ p.targetEntityDefinitionName = Defs[b].name) =>
        /\ Count(Rels[a].referTos, OutEdge(Defs, b, p)) = 1
        /\ Count(Rels[b].referredBys, InEdge(Defs, a, p)) = 1

(* Every referredBys entry of b is a referTos entry of the entity it names. *)
IncomingHasOutgoing(b) ==
  \A j \in 1..Len(Rels[b].referredBys) :
    LET e == Rels[b].referredBys[j] IN
      \E a \in 1..Len(Defs) :
        /\ Defs[a].name = e.entityName
        /\ Count(Rels[a].referTos,
                 [entityName |-> Defs[b].name, propertyName |-> e.propertyName,
                  isUnique |-> e.isUnique]) = 1

(***************************************************************************)
(* C1 as claimed: for every list of definitions and every pair (A, B),     *)
(* each reference of A to B is exactly once in A.referTos and exactly once *)
(* in B.referredBys, and every referredBys entry has its referTos entry.   *)
(***************************************************************************)
C1_AsClaimed ==
  Related =>
    /\ \A a, b \in 1..Len(Defs) : EdgeOnBothSides(a, b)
    /\ \A b \in 1..Len(Defs) : IncomingHasOutgoing(b)

(***************************************************************************)
(* C1 amended: for every list of definitions with pairwise distinct names  *)
(* and every pair of distinct entities A, B in it, each reference of A to  *)
(* B is exactly once in A.referTos and exactly once in B.referredBys, and  *)
(* every referredBys entry has its referTos entry on the entity it names.  *)
(***************************************************************************)
C1_RelationSymmetry ==
  (Related /\ DistinctNames(Defs)) =>
    /\ \A a, b \in 1..Len(Defs) : a # b => EdgeOnBothSides(a, b)
    /\ \A b \in 1..Len(Defs) : IncomingHasOutgoing(b)

C1_Witness ==
  /\ Related /\ Len(Defs) = 2 /\ DistinctNames(Defs)
  /\ Len(Rels[1].referredBys) = 1 /\ Len(Rels[2].referredBys) = 2
  /\ Len(Rels[1].referTos) = 2

(***************************************************************************)
(* Where generation must fail, read off the heap: the entity-tagged inputs *)
(* without a name (field 0) and their columns that cannot be classified.   *)
(* Column 4 has no primitive type; column 3 refers to T2.                  *)
(***************************************************************************)
ColumnError(o) ==
  IF o = 4 THEN "Unsupported schema type"
  ELSE IF o = 3 /\ heap[T2].type # "entity"
  THEN "has .ref() pointing to a non-entity schema"
  ELSE IF o = 3 /\ heap[T2].name = Undefined THEN "Referenced entity must have a name"
  ELSE "none"

FailPoints ==
  {<<i, 0>> : i \in {j \in 1..Len(schemas) :
      heap[schemas[j]].type = "entity" /\ heap[schemas[j]].name = Undefined}}
  \cup UNION {{<<i, k>> : k \in {c \in 1..Len(heap[schemas[i]].shape) :
                  ColumnError(heap[schemas[i]].shape[c].schema) # "none"}} :
              i \in {j \in 1..Len(schemas) : heap[schemas[j]].type = "entity"}}

Before(p, q) == p[1] < q[1] \/ (p[1] = q[1] /\ p[2] <= q[2])

FirstFailure == CHOOSE p \in FailPoints : \A q \in FailPoints : Before(p, q)

ErrorAt(p) ==
  IF p[2] = 0 THEN [message |-> "Entity schema must have a name", name |-> Undefined]
  ELSE [message |-> ColumnError(heap[schemas[p[1]]].shape[p[2]].schema),
        name |-> heap[schemas[p[1]]].shape[p[2]].name]

IsEntityInput(schema) == heap[schema].type = "entity"

EntityInputs == SelectSeq(schemas, IsEntityInput)

C10_EntityFiltering ==
  /\ Returned =>
       /\ Len(Defs) = Len(EntityInputs)
       /\ \A i \in 1..Len(Defs) : Defs[i].name = heap[EntityInputs[i]].name
  /\ (Generated /\ EntityInputs = <<>>) => (Returned /\ Defs = <<>>)
  /\ Threw => \E i \in 1..Len(schemas) :
                /\ IsEntityInput(schemas[i])
                /\ \/ heap[schemas[i]].name = Undefined
                   \/ \E c \in 1..Len(heap[schemas[i]].shape) :
                        heap[schemas[i]].shape[c].name = result[1].error.name

C10_Witness ==
  /\ Returned /\ schemas = <<T2, T1>> /\ heap[T2].type = "json"
  /\ heap[T2].shape = <<Column("f1", 4)>> /\ Len(Defs) = 1

(***************************************************************************)
(* C11: a reference of a definition to its own name is listed once in its  *)
(* referTos and never in its referredBys; no relation record has a         *)
(* referredBys entry whose entityName is the record's own entityName.      *)
(***************************************************************************)
SelfReference(i, k) ==
  /\ Defs[i].properties[k].isReference
  /\ Defs[i].properties[k].targetEntityDefinitionName = Defs[i].name

C11_SelfReferenceExcluded ==
  Related =>
    \A i \in 1..Len(Rels) :
      /\ \A j \in 1..Len(Rels[i].referredBys) :
           Rels[i].referredBys[j].entityName # Rels[i].entityName
      /\ \A k \in 1..Len(Defs[i].properties) :
           SelfReference(i, k) =>
             Count(Rels[i].referTos,
                   [entityName |-> Defs[i].name,
                    propertyName |-> Defs[i].properties[k].name,
                    isUnique |-> Defs[i].properties[k].isUnique]) = 1

C11_Witness ==
  /\ Related /\ schemas = <<T1, T2>> /\ Len(Defs) = 2 /\ Defs[2].name = "B"
  /\ Len(Defs[1].properties) = 2 /\ SelfReference(1, 2)
  /\ Rels[1].referTos = <<[entityName |-> "A", propertyName |-> "f2", isUnique |-> FALSE]>>
  /\ Rels[1].referredBys = <<[entityName |-> "B", propertyName |-> "f1", isUnique |-> FALSE]>>

(***************************************************************************)
(* C12: in every relation record, referTos lists the reference properties  *)
(* of the owning definition in property order, and referredBys lists the   *)
(* incoming edges in the order of the definitions list and, within one     *)
(* referencing definition, in its property order.                          *)
(***************************************************************************)
IsReference(p) == p.isReference

ReferencesOf(i) == SelectSeq(Defs[i].properties, IsReference)

DefIndex(name) == CHOOSE a \in 1..Len(Defs) : Defs[a].name = name

PropIndex(a, name) ==
  CHOOSE k \in 1..Len(Defs[a].properties) : Defs[a].properties[k].name = name

Origin(e) == <<DefIndex(e.entityName), PropIndex(DefIndex(e.entityName), e.propertyName)>>

StrictlyBefore(p, q) == p[1] < q[1] \/ (p[1] = q[1] /\ p[2] < q[2])

C12_RelationOrdering ==
  Related =>
    \A i \in 1..Len(Rels) :
      /\ Rels[i].referTos =
           [k \in 1..Len(ReferencesOf(i)) |->
              [entityName |-> ReferencesOf(i)[k].targetEntityDefinitionName,
               propertyName |-> ReferencesOf(i)[k].name,
               isUnique |-> ReferencesOf(i)[k].isUnique]]
      /\ \A j, l \in 1..Len(Rels[i].referredBys) :
           j < l => StrictlyBefore(Origin(Rels[i].referredBys[j]),
                                   Origin(Rels[i].referredBys[l]))

C12_Witness ==
  /\ Related /\ schemas = <<Project, Department, Employee>>
  /\ Rels[1].referTos = <<[entityName |-> "Employee", propertyName |-> "f1", isUnique |-> TRUE],
                          [entityName |-> "Department", propertyName |-> "f2",
                           isUnique |-> FALSE]>>
  /\ Rels[2].referredBys =
       <<[entityName |-> "Project", propertyName |-> "f2", isUnique |-> FALSE],
         [entityName |-> "Employee", propertyName |-> "f1", isUnique |-> FALSE],
         [entityName |-> "Employee", propertyName |-> "f2", isUnique |-> FALSE]>>

(***************************************************************************)
(* C13: if k properties of definition B reference entity A, B other than   *)
(* A, then A.referredBys has exactly k entries with entityName B, one per  *)
(* property, and B.referTos has exactly k entries with entityName A.       *)
(***************************************************************************)
ReferencesTo(b, a) ==
  {k \in 1..Len(Defs[b].properties) :
     /\ Defs[b].properties[k].isReference
     /\ Defs[b].properties[k].targetEntityDefinitionName = Defs[a].name}

EntriesNaming(edges, name) == {j \in 1..Len(edges) : edges[j].entityName = name}

Unreferenced(i) ==
  /\ ReferencesOf(i) = <<>>
  /\ \A b \in 1..Len(Defs) : ReferencesTo(b, i) = {}

C14_OneRecordPerDefinition ==
  Related =>
    /\ Len(Rels) = Len(Defs)
    /\ \A i \in 1..Len(Defs) :
         /\ DOMAIN Rels[i] = {"entityName", "referTos", "referredBys"}
         /\ Rels[i].entityName = Defs[i].name
         /\ Unreferenced(i) => (Rels[i].referTos = <<>> /\ Rels[i].referredBys = <<>>)

C14_Witness ==
  /\ Related /\ schemas = <<T1, T2>> /\ Len(Rels) = 2
  /\ Rels[1] = [entityName |-> "A", referTos |-> <<>>, referredBys |-> <<>>]
  /\ Rels[2].entityName = "B" /\ Len(Rels[2].referTos) = 1

(***************************************************************************)
(* C15: for a field that is neither pk-tagged nor ref-tagged, the emitted  *)
(* isNullable is true exactly when the wrapper chain has a nullable or an  *)
(* optional layer, also inside an array, and isArray is true exactly when  *)
(* it has an array layer; array(string).optional() gives the Primitive     *)
(* string with isArray and isNullable true.                                *)
(***************************************************************************)
ArrayOfStringOptional ==
  /\ heap[Field].zod = "ZodOptional"
  /\ heap[heap[Field].inner].zod = "ZodArray"
  /\ heap[heap[Field].inner].inner = Base
  /\ heap[Base].zod = "ZodString"
  /\ \A o \in Layers : NoTags(o)

C15_WrapperFlags ==
  /\ (Returned /\ ~PkTagged /\ ~RefTagged) =>
       /\ FieldProp.isNullable = HasNullableLayer
       /\ FieldProp.isArray = HasArrayLayer
  /\ (Generated /\ ArrayOfStringOptional) =>
       /\ Returned
       /\ FieldProp = [isReference |-> FALSE, propertyType |-> "string", name |-> "f",
                       isUnique |-> FALSE, isNullable |-> TRUE, isArray |-> TRUE,
                       acceptableValues |-> <<>>]

C15_Witness ==
  /\ Returned /\ ~PkTagged /\ ~RefTagged
  /\ heap[Field].zod = "ZodArray" /\ heap[heap[Field].inner].zod = "ZodNullable"
  /\ IsPrimitive(FieldProp) /\ FieldProp.isNullable /\ FieldProp.isArray

(***************************************************************************)
(* C16 as claimed: a field whose unwrapped schema is an enumeration is     *)
(* emitted as Primitive of type string whose acceptableValues are the      *)
(* declared literals in order; a Primitive of another schema has none.     *)
(***************************************************************************)
IsEnum == heap[Base].zod = "ZodEnum"

C16_AsClaimed ==
  /\ (Generated /\ IsEnum) =>
       /\ Returned
       /\ IsPrimitive(FieldProp)
       /\ FieldProp.propertyType = "string"
       /\ FieldProp.acceptableValues = <<EnumOptions>>
  /\ (Returned /\ IsPrimitive(FieldProp) /\ ~IsEnum) => FieldProp.acceptableValues = <<>>

(***************************************************************************)
(* C16 amended: a field that is neither pk-tagged nor ref-tagged and whose *)
(* unwrapped schema is an enumeration is emitted as Primitive of type      *)
(* string whose acceptableValues are the declared literals in order; a     *)
(* Primitive of any other schema has no acceptableValues (null).           *)
(***************************************************************************)
C16_EnumFidelity ==
  /\ (Generated /\ IsEnum /\ ~PkTagged /\ ~RefTagged) =>
       /\ Returned
       /\ FieldProp = [isReference |-> FALSE, propertyType |-> "string", name |-> "f",
                       isUnique |-> UniqueTagged, isNullable |-> HasNullableLayer,
                       isArray |-> HasArrayLayer, acceptableValues |-> <<EnumOptions>>]
       /\ Len(FieldProp.acceptableValues[1]) = Len(heap[Base].options)
       /\ \A i \in 1..Len(heap[Base].options) :
            FieldProp.acceptableValues[1][i] = heap[Base].options[i]
  /\ (Returned /\ IsPrimitive(FieldProp) /\ ~IsEnum) => FieldProp.acceptableValues = <<>>

C16_Witness ==
  /\ Returned /\ IsEnum /\ HasArrayLayer /\ UniqueTagged
  /\ IsPrimitive(FieldProp) /\ FieldProp.acceptableValues = <<<<"x", "y">>>>

(***************************************************************************)
(* C17: a call of pk(), unique() or ref() changes at most its own tag of   *)
(* one schema and nothing else, in any call order; a field tagged unique   *)
(* and ref(B), B an entity, and not pk, is emitted as ReferencedObject     *)
(* with isUnique true, and its referTos and referredBys edges carry that   *)
(* isUnique.                                                               *)
(***************************************************************************)
OwnTagOnly(this) ==
  /\ heap' = [heap EXCEPT ![this] = heap'[this]]
  /\ \/ heap'[this] = [heap[this] EXCEPT !.pk = TRUE]
     \/ heap'[this] = [heap[this] EXCEPT !.unique = TRUE]
     \/ /\ heap'[this] = [heap[this] EXCEPT !.ref = heap'[this].ref]
        /\ heap'[this].ref # <<>>

OneTagAtMost == heap' # heap => \E this \in DOMAIN heap : OwnTagOnly(this)

UniqueReference ==
  (Generated /\ UniqueTagged /\ RefTagged /\ ~PkTagged
     /\ heap[RefTag[1].targetEntity].type = "entity") =>
    /\ Returned
    /\ IsReferencedObject(FieldProp)
    /\ FieldProp.isUnique
    /\ FieldProp.targetEntityDefinitionName = heap[RefTag[1].targetEntity].name
    /\ Related =>
         /\ Rels[2].referTos =
              <<[entityName |-> "B", propertyName |-> "f", isUnique |-> TRUE]>>
         /\ Rels[1].referredBys =
              <<[entityName |-> "A", propertyName |-> "f", isUnique |-> TRUE]>>

C18_DescriptionHandling ==
  Returned =>
    \A i \in 1..Len(Defs) :
      LET description == heap[EntityInputs[i]].description IN
        IF description = Undefined
        THEN DOMAIN Defs[i] = {"name", "properties"}
        ELSE /\ DOMAIN Defs[i] = {"name", "properties", "description"}
             /\ Defs[i].description = description

C18_Witness ==
  /\ Returned /\ schemas = <<T2, T1>> /\ Len(Defs) = 2
  /\ DOMAIN Defs[1] = {"name", "properties", "description"} /\ Defs[1].description = "d"
  /\ DOMAIN Defs[2] = {"name", "properties"}

ReadOnlyStep ==
  /\ result' # result => heap' = heap
  /\ relations' # relations => (heap' = heap /\ result' = result)

C21_ReadOnly == [][ReadOnlyStep]_vars

C21_Witness ==
  /\ Threw /\ heap[Field].unique /\ heap[Base].ref # <<>> /\ Field # Base
  /\ schemas = <<B, A(heap)>>

(***************************************************************************)
(* C22: while the schemas are being tagged nothing is validated and        *)
(* nothing fails: ref() can be called on every layer with every target,    *)
(* an entity, a struct, a json or an untagged schema; a reference to a     *)
(* non-entity or an embedded entity is reported by the later call of       *)
(* generateEntities.                                                       *)
(***************************************************************************)
RefTo(this, targetEntity) ==
  /\ Ref
  /\ heap'[this].ref = <<[targetEntity |-> targetEntity, targetColumn |-> "id"]>>

InvalidField ==
  /\ ~PkTagged
  /\ IF RefTagged THEN heap[RefTag[1].targetEntity].type # "entity"
     ELSE heap[Base].type = "entity"

DeferredValidation ==
  /\ Tagging => \A this \in Layers : \A targetEntity \in RefTargets :
                  ENABLED RefTo(this, targetEntity)
  /\ (InvalidField /\ Generated) =>
       /\ Threw
       /\ result[1].error.message \in {"has .ref() pointing to a non-entity schema",
                                        "contains a direct entity embedding"}

C22_DeferredValidation == []DeferredValidation

C22_Witness ==
  /\ Threw /\ tagOps = MaxTagOps /\ heap[Base].type = "entity"
  /\ heap[Base].ref # <<>> /\ heap[Base].ref[1].targetEntity = S
  /\ result[1].error.message = "has .ref() pointing to a non-entity schema"

(***************************************************************************)
(* C23: a field whose raw or unwrapped schema carries the pk tag is always *)
(* emitted as PrimaryKey, whatever its base schema (unsupported, struct,   *)
(* json or entity), wrappers and ref target; the record has exactly        *)
(* isReference false, propertyType PrimaryKey and the name.                *)
(***************************************************************************)
C23_PkAlwaysPrimaryKey ==
  (Generated /\ PkTagged) =>
    /\ Returned
    /\ DOMAIN FieldProp = {"isReference", "propertyType", "name"}
    /\ FieldProp = [isReference |-> FALSE, propertyType |-> "PrimaryKey", name |-> "f"]

C23_Witness ==
  /\ Returned /\ heap[Base].pk /\ heap[Base].type = "entity"
  /\ heap[Field].zod = "ZodArray" /\ HasNullableLayer
  /\ IsPrimaryKeyProp(FieldProp)

(***************************************************************************)
(* C25: a field that is neither pk-tagged nor ref-tagged and whose         *)
(* unwrapped schema carries no kind tag and is none of string, number,     *)
(* boolean, date and enum makes generateEntities throw the unsupported     *)
(* type error naming the field; no property is emitted for it.             *)
(***************************************************************************)
PrimitiveClasses == {"ZodString", "ZodNumber", "ZodBoolean", "ZodDate", "ZodEnum"}

PassedColumns == {"code"}

RefSchemas == {o \in DOMAIN heap : heap[o].ref # <<>>}

WithTargetColumn(h, column) ==
  [o \in DOMAIN h |->
     IF h[o].ref # <<>>
     THEN ref(h, o, h[o].ref[1].targetEntity, column)[o]
     ELSE h[o]]

NoColumnKey(p) == "targetColumn" \notin DOMAIN p

TargetColumnIrrelevant ==
  /\ (Generated /\ ~Related) =>
       /\ \A o \in RefSchemas : heap[o].ref[1].targetColumn = "id"
       /\ \A column \in PassedColumns :
            result[1] = generateEntities(WithTargetColumn(heap, column), schemas)
  /\ Returned => EveryProp(Defs, NoColumnKey)
  /\ Related =>
       \A i \in 1..Len(Rels) :
         /\ \A j \in 1..Len(Rels[i].referTos) :
              DOMAIN Rels[i].referTos[j] = {"entityName", "propertyName", "isUnique"}
         /\ \A j \in 1..Len(Rels[i].referredBys) :
              DOMAIN Rels[i].referredBys[j] = {"entityName", "propertyName", "isUnique"}

C26_TargetColumnIrrelevant == []TargetColumnIrrelevant

C26_Witness ==
  /\ Related /\ Cardinality(RefSchemas) = 2 /\ ~PkTagged
  /\ IsReferencedObject(FieldProp) /\ Len(Rels[1].referredBys) = 1

(***************************************************************************)
(* C27: generateEntities succeeds on an entity whose reference targets a   *)
(* named entity that is not in the input and emits the target's name;      *)
(* generateRelations can be called on every returned list, gives a         *)
(* referTos entry for every reference property, and gives a referredBys    *)
(* entry only for a reference property of a listed definition that targets *)
(* the name of the record, so none for a target name that is not listed.   *)
(***************************************************************************)
Listed(schema) == \E i \in 1..Len(schemas) : schemas[i] = schema

ReferenceColumn(o) == ~heap[o].pk /\ heap[o].ref # <<>>

NamesTarget(i) ==
  \A k \in 1..Len(heap[EntityInputs[i]].shape) :
    LET o == heap[EntityInputs[i]].shape[k].schema IN
      ReferenceColumn(o) =>
        /\ Defs[i].properties[k].isReference
        /\ Defs[i].properties[k].targetEntityDefinitionName
             = heap[heap[o].ref[1].targetEntity].name

HasSource(j, e) ==
  \E a \in 1..Len(Defs) :
    /\ Defs[a].name = e.entityName
    /\ \E k \in 1..Len(Defs[a].properties) :
         /\ Defs[a].properties[k].isReference
         /\ Defs[a].properties[k].name = e.propertyName
         /\ Defs[a].properties[k].targetEntityDefinitionName = Rels[j].entityName

C27_UnlistedTargets ==
  /\ (Generated /\ FailPoints = {}) => Returned
  /\ Returned => \A i \in 1..Len(Defs) : NamesTarget(i)
  /\ (Returned /\ ~Related) => ENABLED GenerateRelations
  /\ Related =>
       \A i \in 1..Len(Defs) :
         /\ \A k \in 1..Len(Defs[i].properties) :
              Defs[i].properties[k].isReference =>
                Count(Rels[i].referTos,
                      [entityName |-> Defs[i].properties[k].targetEntityDefinitionName,
                       propertyName |-> Defs[i].properties[k].name,
                       isUnique |-> Defs[i].properties[k].isUnique]) = 1
         /\ \A j \in 1..Len(Rels[i].referredBys) : HasSource(i, Rels[i].referredBys[j])

C27_Witness ==
  /\ Related /\ schemas = <<T2>> /\ ~Listed(T1) /\ Len(Defs) = 1 /\ Defs[1].name = "B"
  /\ heap[T2].shape = <<Column("f1", 1), Column("f2", 2)>>
  /\ Rels[1].referTos = <<[entityName |-> "A", propertyName |-> "f2", isUnique |-> FALSE]>>
  /\ Rels[1].referredBys = <<>>

(***************************************************************************)
(* C24: for every entity-tagged input generateEntities first requires a    *)
(* name, then a ZodObject, and only then classifies the fields; the first  *)
(* entity input that fails one of the three decides the error, and when    *)
(* none fails every entity input gives a definition under its tagged name. *)
(***************************************************************************)
LateFieldFails ==
  /\ ~heap[Id].pk
  /\ heap[Id].ref # <<>>
  /\ heap[heap[Id].ref[1].targetEntity].type # "entity"

EntityOutcome(schema) ==
  IF heap[schema].name = Undefined
  THEN [message |-> "Entity schema must have a name", name |-> Undefined]
  ELSE IF heap[schema].zod # "ZodObject"
  THEN [message |-> "Entity must be a ZodObject", name |-> heap[schema].name]
  ELSE IF LateFieldFails
  THEN [message |-> "has .ref() pointing to a non-entity schema", name |-> "f1"]
  ELSE [message |-> "none", name |-> Undefined]

FailingInputs == {i \in 1..Len(EntityInputs) : EntityOutcome(EntityInputs[i]).message # "none"}

FirstFailingInput == CHOOSE i \in FailingInputs : \A j \in FailingInputs : i <= j

C24_EntityStructuralChecks ==
  Generated =>
    IF FailingInputs # {}
    THEN Threw /\ result[1].error = EntityOutcome(EntityInputs[FirstFailingInput])
    ELSE /\ Returned
         /\ Len(Defs) = Len(EntityInputs)
         /\ \A i \in 1..Len(Defs) : Defs[i].name = heap[EntityInputs[i]].name

C24_Witness ==
  /\ Threw /\ schemas = <<Account, Scalar>> /\ heap[Scalar].name = "N"
  /\ heap[Account].type = "entity" /\ ~LateFieldFails
  /\ result[1].error = [message |-> "Entity must be a ZodObject", name |-> "N"]

(***************************************************************************)
(* C28: json() tags the schema it is given, in place: the kind becomes     *)
(* json, the name the configured name, the description changes only to a   *)
(* configured description, and no schema object is created; an entity so   *)
(* retagged is skipped as an input of a later generateEntities call and    *)
(* rejected as a reference target, while entity() and struct() tag an      *)
(* object of their own and leave the existing schemas alone.               *)
(***************************************************************************)
Retagged(schema) ==
  /\ heap' = [heap EXCEPT ![schema] = heap'[schema]]
  /\ \E description \in {heap[schema].description, "j"} :
       heap'[schema] = [heap[schema] EXCEPT !.type = "json", !.name = "J",
                                            !.description = description]

(* A step that changes a schema other than Id is a call of json(). *)
JsonInPlace ==
  (heap' # heap /\ heap'[Id] = heap[Id]) => \E schema \in {Account, Profile} : Retagged(schema)

FreshObject(h) == Len(h) = Len(heap) + 1 /\ SubSeq(h, 1, Len(heap)) = heap

FactoriesCreate ==
  /\ FreshObject(entity(heap, Config("E", "e", <<Column("f1", Id)>>)))
  /\ FreshObject(struct(heap, Config("E", Undefined, <<>>)))

NoScalarListed == \A i \in 1..Len(schemas) : schemas[i] # Scalar

RetaggedIsNoEntity ==
  Generated =>
    \A schema \in {Account, Profile} :
      heap[schema].type = "json" =>
        /\ Returned => \A i \in 1..Len(Defs) : Defs[i].name # "J"
        /\ Returned => Len(Defs) = Len(SelectSeq(schemas, IsEntityInput))
        /\ ( /\ ~heap[Id].pk
             /\ heap[Id].ref # <<>> /\ heap[Id].ref[1].targetEntity = schema
             /\ NoScalarListed /\ EntityInputs # <<>> ) =>
             /\ Threw
             /\ result[1].error = [message |-> "has .ref() pointing to a non-entity schema",
                                   name |-> "f1"]

C28_JsonTagsInPlace == [][JsonInPlace]_vars /\ [](FactoriesCreate /\ RetaggedIsNoEntity)

C28_Witness ==
  /\ Threw /\ schemas = <<Account, Profile>>
  /\ heap[Account].type = "json" /\ heap[Account].name = "J"
  /\ heap[Account].zod = "ZodObject" /\ heap[Account].description = Undefined
  /\ heap[Profile].type = "entity"
  /\ heap[Id].ref # <<>> /\ heap[Id].ref[1].targetEntity = Account
  /\ result[1].error.name = "f1"

(***************************************************************************)
(* C29: pk(), unique() and ref() change the schema object they are called  *)
(* on and create none, so the tags that Id carries when generateEntities   *)
(* is called, all set after Account and Profile were built, decide the     *)
(* classification of every field that shares Id, the same in both          *)
(* entities; so does the kind that a reference target has at that time.    *)
(***************************************************************************)
TagInPlace ==
  /\ Len(heap') = Len(heap)
  /\ heap'[Id] # heap[Id] => heap' = [heap EXCEPT ![Id] = heap'[Id]]

ExpectedOfId(fieldName) ==
  IF heap[Id].pk
  THEN [isReference |-> FALSE, propertyType |-> "PrimaryKey", name |-> fieldName]
  ELSE IF heap[Id].ref # <<>>
  THEN [isReference |-> TRUE, name |-> fieldName,
        targetEntityDefinitionName |-> heap[heap[Id].ref[1].targetEntity].name,
        isUnique |-> heap[Id].unique, isNullable |-> FALSE]
  ELSE [isReference |-> FALSE, propertyType |-> "string", name |-> fieldName,
        isUnique |-> heap[Id].unique, isNullable |-> FALSE, isArray |-> FALSE,
        acceptableValues |-> <<>>]

ClassifiedByCurrentTags ==
  /\ Returned =>
       \A i \in 1..Len(Defs) :
         /\ Len(Defs[i].properties) = Len(heap[EntityInputs[i]].shape)
         /\ \A k \in 1..Len(Defs[i].properties) :
              Defs[i].properties[k] = ExpectedOfId(FieldNames[k])
  /\ (Generated /\ LateFieldFails /\ NoScalarListed /\ EntityInputs # <<>>) => Threw

C29_TagsReadAtGeneration == [][TagInPlace]_vars /\ []ClassifiedByCurrentTags

C29_Witness ==
  /\ Returned /\ schemas = <<Profile, Account>> /\ Len(Defs) = 2
  /\ heap[Id].unique /\ heap[Id].ref # <<>> /\ heap[Id].ref[1].targetEntity = Account
  /\ Defs[1].properties[2] = [isReference |-> TRUE, name |-> "f2",
                              targetEntityDefinitionName |-> "A",
                              isUnique |-> TRUE, isNullable |-> FALSE]
  /\ Defs[2].properties[1] = [Defs[1].properties[2] EXCEPT !.name = "f1"]

(***************************************************************************)
(* C30: unwrapSchema terminates on every finite chain of optional,         *)
(* nullable and array wrappers.  Each iteration of its loop either strips  *)
(* exactly the one layer at `current`, leaving a chain one layer shorter,  *)
(* or finds a schema of none of the three classes and breaks without       *)
(* moving; the loop eventually breaks, and the value then returned has the *)
(* innermost schema of the chain as innerSchema, which is no wrapper, and  *)
(* is the value of unwrapSchema.                                           *)
(***************************************************************************)
LoopLeft == ~frame.looping

StripsOneLayer ==
  frame' # frame =>
    IF heap[frame.current].zod \in WrapperClasses
    THEN /\ frame'.looping
         /\ frame'.current = heap[frame.current].inner
         /\ Chain(heap, frame'.current) = Chain(heap, frame.current) \ {frame.current}
         /\ Cardinality(Chain(heap, frame'.current))
              = Cardinality(Chain(heap, frame.current)) - 1
    ELSE /\ LoopLeft'
         /\ frame'.current = frame.current

ReturnsInnermost ==
  LoopLeft =>
    /\ unwrapReturn(frame).innerSchema = Base
    /\ heap[unwrapReturn(frame).innerSchema].zod \notin WrapperClasses
    /\ unwrapReturn(frame) = unwrapSchema(heap, Field)

C30_UnwrapTerminates ==
  /\ <>LoopLeft
  /\ [][StripsOneLayer]_vars
  /\ []ReturnsInnermost

C30_Witness ==
  /\ LoopLeft
  /\ Cardinality(Layers) >= 3
  /\ HasNullableLayer
  /\ HasArrayLayer
  /\ frame.current = Base

====
